---- MODULE Spec2Model ----
(***************************************************************************)
(* fss: the concurrent tree walk (walk) and the aggregation loop           *)
(* (Walk::run) of src/src/walk.rs, with the group key resolvers of         *)
(* src/src/walk.rs and src/src/groups.rs.                                  *)
(*                                                                         *)
(* Strings are sequences of one-character strings, so that extension       *)
(* splitting and ASCII lowercasing are computed, not assumed.  A path is   *)
(* a sequence of components; the components <<"/">>, <<".">> and           *)
(* <<".", ".">> are the root directory, the current directory and the      *)
(* parent directory, every other component is a normal name.               *)
(***************************************************************************)
EXTENDS Integers, Sequences, FiniteSets, TLC

\* ------------------------------------------------------------------ bounds

\* Thread-pool widths 1..MaxThreads are explored.
MaxThreads == 2

\* At most MaxFaults filesystem failures are injected into one run.
MaxFaults == 1

\* ----------------------------------------------------------------- strings

UpperCase == <<"A","B","C","D","E","F","G","H","I","J","K","L","M",
               "N","O","P","Q","R","S","T","U","V","W","X","Y","Z">>

LowerCase == <<"a","b","c","d","e","f","g","h","i","j","k","l","m",
               "n","o","p","q","r","s","t","u","v","w","x","y","z">>

\* u8::to_ascii_lowercase on one character.
LowerChar(c) ==
  IF \E i \in 1..26 : UpperCase[i] = c
  THEN LowerCase[CHOOSE i \in 1..26 : UpperCase[i] = c]
  ELSE c

\* OsStr::to_ascii_lowercase / str::to_ascii_lowercase.
to_ascii_lowercase(s) == [i \in 1..Len(s) |-> LowerChar(s[i])]

RootDir == <<"/">>
CurDir == <<".">>
ParentDir == <<".", ".">>

IsNormal(comp) == comp # RootDir /\ comp # CurDir /\ comp # ParentDir

\* Path::file_name: the last component when it is a normal one, else None;
\* None is the empty string after unwrap_or_default.
file_name(path) ==
  IF path # <<>> /\ IsNormal(path[Len(path)]) THEN path[Len(path)] ELSE <<>>

\* Position of the last "." of a file name, 0 when there is none.
LastDot(name) ==
  IF \E i \in 1..Len(name) : name[i] = "."
  THEN CHOOSE i \in 1..Len(name) :
         name[i] = "." /\ \A j \in (i+1)..Len(name) : name[j] # "."
  ELSE 0

\* Path::extension: the part of the file name after its last ".", None (the
\* empty string after unwrap_or_default) when the name has no "." or only a
\* leading one.
extension(path) ==
  LET name == file_name(path)
      d == LastDot(name)
  IN IF d <= 1 THEN <<>> ELSE SubSeq(name, d + 1, Len(name))

\* Path::parent: the path without its last component; None for the empty
\* path and for a path ending in the root directory.
HasParent(path) == path # <<>> /\ path[Len(path)] # RootDir

parent(path) == SubSeq(path, 1, Len(path) - 1)

\* Mutant of get_ext: the extension is taken as it is spelled.
get_ext_cased(path) == extension(path)

get_ext(path) == to_ascii_lowercase(extension(path))

get_filename(path) == file_name(path)

get_parent_directory(path) ==
  file_name(IF HasParent(path) THEN parent(path) ELSE <<>>)

\* The entries of FILETYPE_MAP for the extensions that occur in the model;
\* every other extension is absent from the table.
FILETYPE_MAP ==
  [ext \in {<<"t","x","t">>, <<"j","p","g">>, <<"c">>} |->
     CASE ext = <<"t","x","t">> -> <<"D","o","c","u","m","e","n","t">>
       [] ext = <<"j","p","g">> -> <<"I","m","a","g","e">>
       [] ext = <<"c">> -> <<"C","o","d","e">>]

Other == <<"O","t","h","e","r">>

\* Mutant of get_filetype: an extension missing from the table names its own
\* group.
get_filetype_or_ext(ext) ==
  IF ext \in DOMAIN FILETYPE_MAP THEN FILETYPE_MAP[ext] ELSE ext

\* FileType::get_filetype followed by to_string.
get_filetype(ext) ==
  IF ext \in DOMAIN FILETYPE_MAP THEN FILETYPE_MAP[ext] ELSE Other

GroupModes == {"Type", "Extension", "FileName", "Directory"}

\* The match on group_by in the receiver loop: the key under which a counted
\* path is accumulated.
GroupKey(mode, path) ==
  CASE mode = "Type" -> get_filetype(get_ext(path))
    [] mode = "Extension" -> get_ext(path)
    [] mode = "FileName" -> get_filename(path)
    [] mode = "Directory" -> get_parent_directory(path)

\* -------------------------------------------------------------- filesystem

top == <<"t","o","p">>
A_TXT == <<"A",".","T","X","T">>
sub == <<"s","u","b">>
b_txt == <<"b",".","t","x","t">>
ln == <<"l","n">>
x_q == <<"x",".","q">>
gone == <<"g","o","n","e">>

pTop == <<top>>
pA == <<top, A_TXT>>
pSub == <<top, sub>>
pB == <<top, sub, b_txt>>
pLn == <<top, ln>>
pX == <<x_q>>
pGone == <<gone>>
pHere == <<CurDir>>
pHereX == <<CurDir, x_q>>

\* The tree the walk runs on.  top/A.TXT and top/sub/b.txt are two names of
\* one physical file (inode 1); top/ln is a symbolic link to top; x.q is a
\* file of the working directory; gone does not exist.  "." is the working
\* directory itself, whose listing yields x.q as ./x.q.  ino 0 is unused.
\* entries is a directory's listing, in the order read_dir yields it.
FS ==
  [p \in {pTop, pA, pSub, pB, pLn, pX, pHere, pHereX} |->
     CASE p = pTop -> [kind |-> "dir", ino |-> 5, size |-> 16,
                       entries |-> <<A_TXT, sub, ln>>]
       [] p = pA -> [kind |-> "file", ino |-> 1, size |-> 1, entries |-> <<>>]
       [] p = pSub -> [kind |-> "dir", ino |-> 6, size |-> 32,
                       entries |-> <<b_txt>>]
       [] p = pB -> [kind |-> "file", ino |-> 1, size |-> 1, entries |-> <<>>]
       [] p = pLn -> [kind |-> "symlink", ino |-> 3, size |-> 4,
                      entries |-> <<>>]
       [] p = pX -> [kind |-> "file", ino |-> 4, size |-> 8, entries |-> <<>>]
       [] p = pHere -> [kind |-> "dir", ino |-> 7, size |-> 64,
                        entries |-> <<x_q>>]
       [] p = pHereX -> [kind |-> "file", ino |-> 4, size |-> 8,
                         entries |-> <<>>]]

Paths == DOMAIN FS

Dirs == {p \in Paths : FS[p].kind = "dir"}

\* The root lists explored: single roots, a root given twice, a root nested in
\* another root, a root that does not exist beside one that does, the working
\* directory named "." (the default of the command line).
RootLists ==
  { <<pTop>>, <<pSub>>, <<pX>>, <<pGone>>, <<pHere>>,
    <<pX, pX>>, <<pSub, pX>>, <<pGone, pSub>>, <<pSub, pSub>>,
    <<pTop, pB>>, <<pX, pGone, pX>> }

\* Where failures are injected: paths whose metadata cannot be read (beside
\* the paths that do not exist), directories that cannot be listed, and
\* listed entries whose DirEntry is an Err.  After an Err the ReadDir iterator
\* of the platform either goes on with the next entry or is at its end
\* (endOfStream).
NoMetaSites == {pSub}

NoListSites == {pTop, pSub}

BadEntrySites == {pSub}

FaultSets ==
  {f \in [noMeta : SUBSET NoMetaSites, noList : SUBSET NoListSites,
          badEntry : SUBSET BadEntrySites, endOfStream : BOOLEAN] :
     /\ Cardinality(f.noMeta) + Cardinality(f.noList) +
          Cardinality(f.badEntry) <= MaxFaults
     /\ f.endOfStream => f.badEntry # {}}

\* ------------------------------------------------------------------- state

VARIABLES
  root_dirs,       \* Walk.root_dirs: the list of root paths
  num_threads,     \* Walk.num_threads: the width of the rayon pool
  group_by,        \* Walk.group_by
  has_ids,         \* whether the platform's generate_unique_id yields Some
  faults,          \* the failures the filesystem answers with in this run
  pc,              \* position of the caller inside Walk::run
  task,            \* one closure call of walk per visited entry: its state
  stack,           \* per pool worker, the closure calls it is blocked in
  senders,         \* live channel::Sender handles, one per walk invocation
  queue,           \* the unbounded channel's buffered messages, oldest first
  rx_pc,           \* position of the receiver thread
  total,           \* receiver thread: total
  ids,             \* receiver thread: ids, the HashSet of identities seen
  sizes,           \* receiver thread: sizes, group key -> accumulated size
  error_messages,  \* receiver thread: error_messages
  result,          \* the tuple Walk::run returns (once pc = "returned")
  sent,            \* history: every message sent, in the order of the sends
  consumed         \* history: the messages the receiver took, in order

vars == <<root_dirs, num_threads, group_by, has_ids, faults, pc, task, stack,
          senders, queue, rx_pc, total, ids, sizes, error_messages, result,
          sent, consumed>>

inputVars == <<root_dirs, num_threads, group_by, has_ids, faults>>

walkVars == <<task, stack, senders>>

aggVars == <<total, ids, sizes, error_messages>>

\* The walk invocation pool.install runs; it is no closure call of its own.
ROOT == <<0, <<>>>>

\* A closure call is named by the root it descends from and its entry's path.
PathOf(t) == t[2]

RootTasks == {<<i, root_dirs[i]>> : i \in 1..Len(root_dirs)}

\* entry.symlink_metadata(): Ok unless the path does not exist or fails.
MetaOk(path) == path \in Paths /\ path \notin faults.noMeta

\* Mutant of is_dir: the metadata is that of the link's target (metadata()
\* in place of symlink_metadata()), so a link to a directory is a directory.
is_dir_following(path) == FS[path].kind \in {"dir", "symlink"}

\* metadata.is_dir() of the link's own metadata: false for a symbolic link.
is_dir(path) == FS[path].kind = "dir"

\* fs::read_dir(entry) is Ok.
ListOk(path) == path \notin faults.noList

\* Mutant of Yielded: the first entry of a listing is lost.
YieldedButFirst(path) ==
  {j \in 2..Len(FS[path].entries) :
     /\ Append(path, FS[path].entries[j]) \notin faults.badEntry
     /\ faults.endOfStream =>
          \A i \in 1..(j - 1) :
            Append(path, FS[path].entries[i]) \notin faults.badEntry}

\* The positions of a directory's entries that child_entries.flatten()
\* yields: flatten drops an Err, and the iterator yields nothing after an Err
\* when it is then at its end.
Yielded(path) ==
  {j \in 1..Len(FS[path].entries) :
     /\ Append(path, FS[path].entries[j]) \notin faults.badEntry
     /\ faults.endOfStream =>
          \A i \in 1..(j - 1) :
            Append(path, FS[path].entries[i]) \notin faults.badEntry}

\* Mutant of ChildrenOf: the entries are walked although read_dir failed.
ChildrenOfDespiteFailure(path) ==
  {Append(path, FS[path].entries[k]) : k \in Yielded(path)}

\* The children vector walk builds for a directory: the entries the
\* listing yields as Ok, joined to the path; empty when read_dir failed.
ChildrenOf(path) ==
  IF ListOk(path)
  THEN {Append(path, FS[path].entries[k]) : k \in Yielded(path)}
  ELSE {}

ChildTasks(t) == {<<t[1], c>> : c \in ChildrenOf(PathOf(t))}

NoId == 0

\* generate_unique_id(&metadata): Some(device, inode) where the platform has
\* one, None elsewhere.
generate_unique_id(path) == IF has_ids THEN FS[path].ino ELSE NoId

\* filesize_type.size(&metadata)
SizeOf(path) == FS[path].size

SizeEntry(id, path, size) ==
  [type |-> "SizeEntry", error |-> "", id |-> id, path |-> path, size |-> size]

ErrorMsg(kind, path) ==
  [type |-> "Error", error |-> kind, id |-> NoId, path |-> path, size |-> 0]

\* tx_ref.send(msg) on the unbounded channel: never blocks, appends.
Send(q, msg) == Append(q, msg)

\* The sends of a sequence of messages, in order.
RECURSIVE SendAll(_, _)
SendAll(q, msgs) ==
  IF msgs = <<>> THEN q ELSE SendAll(Send(q, Head(msgs)), Tail(msgs))

Workers == 1..num_threads

Init ==
  /\ root_dirs \in RootLists
  /\ num_threads \in 1..MaxThreads
  /\ group_by \in GroupModes
  /\ has_ids \in BOOLEAN
  /\ faults \in FaultSets
  /\ pc = "install"
  /\ task = <<>>
  /\ stack = [w \in Workers |-> <<>>]
  /\ senders = 1
  /\ queue = <<>>
  /\ rx_pc = "recv"
  /\ total = 0
  /\ ids = {}
  /\ sizes = <<>>
  /\ error_messages = <<>>
  /\ result = <<>>
  /\ sent = <<>>
  /\ consumed = <<>>

\* ------------------------------------------------------------------ walker

\* pool.install(|| walk(tx, self.root_dirs, ..)): the root invocation of walk
\* starts on a pool worker and turns every root into a closure call.
Install ==
  /\ pc = "install"
  /\ stack' = [stack EXCEPT ![1] = <<ROOT>>]
  /\ task' = [t \in RootTasks |-> "pending"]
  /\ pc' = "walking"
  /\ UNCHANGED <<inputVars, senders, queue, rx_pc, aggVars, result, sent,
                 consumed>>

\* Mutant of VisitNoMeta: the entry is dropped without a message.
VisitNoMetaSilent(t) ==
  /\ task[t] = "pending"
  /\ ~MetaOk(PathOf(t))
  /\ task' = [task EXCEPT ![t] = "done"]
  /\ UNCHANGED <<inputVars, pc, stack, senders, queue, rx_pc, aggVars, result,
                 sent, consumed>>

\* The closure on an entry whose symlink_metadata fails: one Error message.
VisitNoMeta(t) ==
  /\ task[t] = "pending"
  /\ ~MetaOk(PathOf(t))
  /\ queue' = Send(queue, ErrorMsg("NoMetadataForPath", PathOf(t)))
  /\ sent' = Append(sent, ErrorMsg("NoMetadataForPath", PathOf(t)))
  /\ task' = [task EXCEPT ![t] = "done"]
  /\ UNCHANGED <<inputVars, pc, stack, senders, rx_pc, aggVars, result,
                 consumed>>

\* Mutant of VisitFile: the channel holds one message, a send waits while it
\* is full.
VisitFileBounded(t) ==
  /\ task[t] = "pending"
  /\ MetaOk(PathOf(t))
  /\ ~is_dir(PathOf(t))
  /\ queue = <<>>
  /\ queue' = Send(queue, SizeEntry(generate_unique_id(PathOf(t)), PathOf(t),
                                    SizeOf(PathOf(t))))
  /\ sent' = Append(sent, SizeEntry(generate_unique_id(PathOf(t)), PathOf(t),
                                    SizeOf(PathOf(t))))
  /\ task' = [task EXCEPT ![t] = "done"]
  /\ UNCHANGED <<inputVars, pc, stack, senders, rx_pc, aggVars, result,
                 consumed>>

\* The closure on an entry that is no directory: one SizeEntry message.
VisitFile(t) ==
  /\ task[t] = "pending"
  /\ MetaOk(PathOf(t))
  /\ ~is_dir(PathOf(t))
  /\ queue' = Send(queue, SizeEntry(generate_unique_id(PathOf(t)), PathOf(t),
                                    SizeOf(PathOf(t))))
  /\ sent' = Append(sent, SizeEntry(generate_unique_id(PathOf(t)), PathOf(t),
                                    SizeOf(PathOf(t))))
  /\ task' = [task EXCEPT ![t] = "done"]
  /\ UNCHANGED <<inputVars, pc, stack, senders, rx_pc, aggVars, result,
                 consumed>>

\* Mutant of DirMessages: a failed listing is swallowed.
DirMessagesSilent(path) == <<>>

\* Mutant of DirMessages: a listed directory is announced with a message too.
DirMessagesAlways(path) ==
  <<[type |-> "SizeEntry", error |-> "", id |-> NoId, path |-> path,
     size |-> 0]>>

\* Mutant of DirMessages: the directory's own size is sent as a SizeEntry.
DirMessagesSized(path) ==
  <<SizeEntry(generate_unique_id(path), path, SizeOf(path))>> \o
  (IF ListOk(path) THEN <<>> ELSE <<ErrorMsg("CouldNotReadDir", path)>>)

\* What the closure sends for a directory: nothing when the listing
\* succeeded, one CouldNotReadDir when it failed.
DirMessages(path) ==
  IF ListOk(path) THEN <<>> ELSE <<ErrorMsg("CouldNotReadDir", path)>>

\* The closure on a directory, run by worker w: list it, report a failed
\* listing, then call walk(tx_ref.clone(), &children) and block in it.  A
\* worker is free to run a closure when it is idle or blocked in a nested
\* walk (it then takes other jobs of the pool).
VisitDir(t, w) ==
  /\ task[t] = "pending"
  /\ MetaOk(PathOf(t))
  /\ is_dir(PathOf(t))
  /\ queue' = SendAll(queue, DirMessages(PathOf(t)))
  /\ sent' = sent \o DirMessages(PathOf(t))
  /\ senders' = senders + 1
  /\ task' = [c \in ChildTasks(t) |-> "pending"] @@
             [task EXCEPT ![t] = "waiting"]
  /\ stack' = [stack EXCEPT ![w] = Append(@, t)]
  /\ UNCHANGED <<inputVars, pc, rx_pc, aggVars, result, consumed>>

\* Mutant of FreeWorkers: a worker blocked in a nested walk takes no other
\* job (it waits on a lock instead of stealing work).
FreeWorkersIdleOnly ==
  {w \in Workers : stack[w] = <<>> /\ \A v \in 1..(w-1) : stack[v] # <<>>}

\* The workers that may take the next job: those blocked in a nested walk and
\* one idle worker (idle workers are interchangeable, the least stands for
\* them).
FreeWorkers ==
  {w \in Workers : stack[w] # <<>>} \cup
  {w \in Workers : stack[w] = <<>> /\ \A v \in 1..(w-1) : stack[v] # <<>>}

Top(w) == stack[w][Len(stack[w])]

Pop(w) == [stack EXCEPT ![w] = SubSeq(@, 1, Len(@) - 1)]

\* The nested walk of a directory returns: every closure call on its
\* children has finished; its Sender clone is dropped.
WalkReturn(t) ==
  /\ task[t] = "waiting"
  /\ \A c \in ChildTasks(t) : task[c] = "done"
  /\ \E w \in Workers :
       /\ stack[w] # <<>>
       /\ Top(w) = t
       /\ stack' = Pop(w)
  /\ task' = [task EXCEPT ![t] = "done"]
  /\ senders' = senders - 1
  /\ UNCHANGED <<inputVars, pc, queue, rx_pc, aggVars, result, sent,
                 consumed>>

\* Mutant of InstallReturn: the caller keeps a Sender of its own alive.
InstallReturnKeepsSender ==
  /\ pc = "walking"
  /\ \A t \in RootTasks : task[t] = "done"
  /\ \E w \in Workers :
       /\ stack[w] # <<>>
       /\ stack[w][Len(stack[w])] = ROOT
       /\ stack' = [stack EXCEPT ![w] = SubSeq(@, 1, Len(@) - 1)]
  /\ pc' = "join"
  /\ UNCHANGED <<inputVars, task, senders, queue, rx_pc, aggVars, result,
                 sent, consumed>>

\* The root walk returns and with it pool.install: the last Sender is dropped.
InstallReturn ==
  /\ pc = "walking"
  /\ \A t \in RootTasks : task[t] = "done"
  /\ \E w \in Workers :
       /\ stack[w] # <<>>
       /\ Top(w) = ROOT
       /\ stack' = Pop(w)
  /\ senders' = senders - 1
  /\ pc' = "join"
  /\ UNCHANGED <<inputVars, task, queue, rx_pc, aggVars, result, sent,
                 consumed>>

\* ---------------------------------------------------------------- receiver

\* Mutant of IsDuplicate: the receiver never skips an entry.
IsDuplicateNever(seen, id) == FALSE

\* `!ids.insert(unique_id)` under `if let Some(unique_id)`: the entry is
\* skipped when its identity is present and was seen before.
IsDuplicate(seen, id) == id # NoId /\ id \in seen

\* Mutant of InsertId: the identity of a counted entry is not remembered.
InsertIdForgets(seen, id) == seen

\* Mutant of InsertId: an absent identity is remembered like a present one.
InsertIdAbsentToo(seen, id) == seen \cup {id}

\* Mutant of InsertId: only the identity seen last is remembered.
InsertIdReplaces(seen, id) == IF id # NoId THEN {id} ELSE seen

\* The set after ids.insert(unique_id); untouched for an absent identity.
InsertId(seen, id) == IF id # NoId THEN seen \cup {id} ELSE seen

\* Mutant of AddToGroup: a new key is not inserted (or_insert is missing).
AddToGroupNoInsert(map, key, size) ==
  IF key \in DOMAIN map THEN [map EXCEPT ![key] = @ + size] ELSE map

\* Mutant of AddToGroup: the entry is overwritten (and_modify is missing).
AddToGroupOverwrites(map, key, size) ==
  (key :> size) @@ [k \in DOMAIN map \ {key} |-> map[k]]

\* sizes.entry(key).and_modify(|s| *s += size).or_insert(size)
AddToGroup(map, key, size) ==
  IF key \in DOMAIN map
  THEN [map EXCEPT ![key] = @ + size]
  ELSE (key :> size) @@ map

\* Mutant of RecvSizeEntry: a name of a file seen before still adds the size
\* to its own group.
RecvSizeEntryCreditsEveryName ==
  /\ rx_pc = "recv"
  /\ queue # <<>>
  /\ Head(queue).type = "SizeEntry"
  /\ LET msg == Head(queue) IN
       /\ ids' = InsertId(ids, msg.id)
       /\ total' = IF IsDuplicate(ids, msg.id) THEN total
                   ELSE total + msg.size
       /\ sizes' = AddToGroup(sizes, GroupKey(group_by, msg.path), msg.size)
       /\ consumed' = Append(consumed, msg)
  /\ queue' = Tail(queue)
  /\ UNCHANGED <<inputVars, pc, walkVars, rx_pc, error_messages, result,
                 sent>>

\* Mutant of RecvSizeEntry: the group of a skipped entry's path is created,
\* with nothing in it.
RecvSizeEntryKeysDuplicate ==
  /\ rx_pc = "recv"
  /\ queue # <<>>
  /\ Head(queue).type = "SizeEntry"
  /\ LET msg == Head(queue) IN
       /\ ids' = InsertId(ids, msg.id)
       /\ IF IsDuplicate(ids, msg.id)
          THEN /\ total' = total
               /\ sizes' = AddToGroup(sizes, GroupKey(group_by, msg.path), 0)
          ELSE /\ total' = total + msg.size
               /\ sizes' = AddToGroup(sizes, GroupKey(group_by, msg.path),
                                      msg.size)
       /\ consumed' = Append(consumed, msg)
  /\ queue' = Tail(queue)
  /\ UNCHANGED <<inputVars, pc, walkVars, rx_pc, error_messages, result,
                 sent>>

\* Mutant of RecvSizeEntry: the size is added to total before the identity
\* is looked up.
RecvSizeEntryTotalsFirst ==
  /\ rx_pc = "recv"
  /\ queue # <<>>
  /\ Head(queue).type = "SizeEntry"
  /\ LET msg == Head(queue) IN
       /\ ids' = InsertId(ids, msg.id)
       /\ total' = total + msg.size
       /\ sizes' = IF IsDuplicate(ids, msg.id) THEN sizes
                   ELSE AddToGroup(sizes, GroupKey(group_by, msg.path),
                                   msg.size)
       /\ consumed' = Append(consumed, msg)
  /\ queue' = Tail(queue)
  /\ UNCHANGED <<inputVars, pc, walkVars, rx_pc, error_messages, result,
                 sent>>

\* One iteration of `for msg in rx` on a SizeEntry.
RecvSizeEntry ==
  /\ rx_pc = "recv"
  /\ queue # <<>>
  /\ Head(queue).type = "SizeEntry"
  /\ LET msg == Head(queue) IN
       /\ ids' = InsertId(ids, msg.id)
       /\ IF IsDuplicate(ids, msg.id)
          THEN UNCHANGED <<total, sizes>>
          ELSE /\ total' = total + msg.size
               /\ sizes' = AddToGroup(sizes, GroupKey(group_by, msg.path),
                                      msg.size)
       /\ consumed' = Append(consumed, msg)
  /\ queue' = Tail(queue)
  /\ UNCHANGED <<inputVars, pc, walkVars, rx_pc, error_messages, result,
                 sent>>

\* Mutant of RecvError: the error's path is given a group of size 0.
RecvErrorMakesGroup ==
  /\ rx_pc = "recv"
  /\ queue # <<>>
  /\ Head(queue).type = "Error"
  /\ error_messages' = Append(error_messages,
                              [error |-> Head(queue).error,
                               path |-> Head(queue).path])
  /\ sizes' = AddToGroup(sizes, GroupKey(group_by, Head(queue).path), 0)
  /\ consumed' = Append(consumed, Head(queue))
  /\ queue' = Tail(queue)
  /\ UNCHANGED <<inputVars, pc, walkVars, rx_pc, total, ids, result, sent>>

\* Mutant of RecvError: the error is put at the front of the list.
RecvErrorPrepends ==
  /\ rx_pc = "recv"
  /\ queue # <<>>
  /\ Head(queue).type = "Error"
  /\ error_messages' = <<[error |-> Head(queue).error,
                          path |-> Head(queue).path]>> \o error_messages
  /\ consumed' = Append(consumed, Head(queue))
  /\ queue' = Tail(queue)
  /\ UNCHANGED <<inputVars, pc, walkVars, rx_pc, total, ids, sizes, result,
                 sent>>

\* One iteration of `for msg in rx` on an Error.
RecvError ==
  /\ rx_pc = "recv"
  /\ queue # <<>>
  /\ Head(queue).type = "Error"
  /\ error_messages' = Append(error_messages,
                              [error |-> Head(queue).error,
                               path |-> Head(queue).path])
  /\ consumed' = Append(consumed, Head(queue))
  /\ queue' = Tail(queue)
  /\ UNCHANGED <<inputVars, pc, walkVars, rx_pc, total, ids, sizes, result,
                 sent>>

\* Mutant of Disconnected: the loop ends as soon as no Sender is left.
DisconnectedIgnoresBuffer(q, n) == n = 0

\* Mutant of Disconnected: the loop ends when it finds the channel empty
\* (try_recv in place of the blocking iteration).
DisconnectedWhenEmpty(q, n) == q = <<>>

\* The channel is empty and disconnected.
Disconnected(q, n) == q = <<>> /\ n = 0

\* `for msg in rx` ends; the thread's value is (total, sizes, error_messages).
RecvClosed ==
  /\ rx_pc = "recv"
  /\ Disconnected(queue, senders)
  /\ rx_pc' = "done"
  /\ UNCHANGED <<inputVars, pc, walkVars, queue, aggVars, result, sent,
                 consumed>>

\* receiver_thread.join().unwrap(): Walk::run returns the thread's value.
Join ==
  /\ pc = "join"
  /\ rx_pc = "done"
  /\ result' = <<total, sizes, error_messages>>
  /\ pc' = "returned"
  /\ UNCHANGED <<inputVars, walkVars, queue, rx_pc, aggVars, sent, consumed>>

Next ==
  \/ Install
  \/ \E t \in DOMAIN task : VisitNoMeta(t)
  \/ \E t \in DOMAIN task : VisitFile(t)
  \/ \E t \in DOMAIN task : \E w \in FreeWorkers : VisitDir(t, w)
  \/ \E t \in DOMAIN task : WalkReturn(t)
  \/ InstallReturn
  \/ RecvSizeEntry
  \/ RecvError
  \/ RecvClosed
  \/ Join

Spec == Init /\ [][Next]_vars

\* Every thread that can take a step eventually takes one: the operating
\* system schedules the receiver thread, the pool workers and the caller.
FairSpec == Spec /\ WF_vars(Next)

\* ------------------------------------------------------------ verification

\* The sum of the values of a finite function (a map or a sequence).
RECURSIVE SumFun(_)
SumFun(f) ==
  IF DOMAIN f = {} THEN 0
  ELSE LET x == CHOOSE x \in DOMAIN f : TRUE
       IN f[x] + SumFun([y \in DOMAIN f \ {x} |-> f[y]])

\* Positions of the SizeEntry messages of a sequence.
EntryIdx(seq) == {i \in 1..Len(seq) : seq[i].type = "SizeEntry"}

\* The identities carried by the SizeEntry messages of a sequence.
SeenIds(seq) == {seq[i].id : i \in EntryIdx(seq)} \ {NoId}

\* The paths a sequence's SizeEntry messages name for one identity.
NamesOf(seq, id) == {seq[i].path : i \in {j \in EntryIdx(seq) : seq[j].id = id}}

\* The size of the physical file with identity id.
IdSize(seq, id) ==
  LET i == CHOOSE j \in EntryIdx(seq) : seq[j].id = id IN seq[i].size

\* Sum of the sizes of the SizeEntry messages of a sequence, each distinct
\* identity once, every identity-less message counted.
DistinctSum(seq) ==
  SumFun([id \in SeenIds(seq) |-> IdSize(seq, id)]) +
  SumFun([i \in {j \in EntryIdx(seq) : seq[j].id = NoId} |-> seq[i].size])

\* C1: after the receiver has consumed any sequence of messages, total is the
\* sum of the sizes of the consumed SizeEntry messages, each distinct identity
\* counted once and every identity-less entry counted; every SizeEntry is
\* about a non-directory; the returned total is that sum over all messages.
C1_TotalIsDistinctSum ==
  /\ total = DistinctSum(consumed)
  /\ \A i \in EntryIdx(consumed) : ~is_dir(consumed[i].path)
  /\ pc = "returned" => result[1] = DistinctSum(sent)

\* C1 witness: a returned run in which an identity arrived more than once and
\* was counted once.
C1_Witness ==
  /\ pc = "returned"
  /\ \E id \in SeenIds(consumed) :
       Cardinality({i \in EntryIdx(consumed) : consumed[i].id = id}) >= 2
  /\ result[1] = 5

\* The ways to credit every identity of a sequence to one of its names.
Credits(seq) ==
  {a \in [SeenIds(seq) -> {seq[i].path : i \in EntryIdx(seq)}] :
     \A id \in SeenIds(seq) : a[id] \in NamesOf(seq, id)}

\* The groups map in which every identity is credited, whole, to the group
\* of the name a gives it.
GroupsOfCredit(seq, a) ==
  LET keys == {GroupKey(group_by, a[id]) : id \in SeenIds(seq)}
  IN [k \in keys |->
        SumFun([id \in {x \in SeenIds(seq) : GroupKey(group_by, a[x]) = k}
                  |-> IdSize(seq, id)])]

\* C2: where entries carry identities, every physical file is added once to
\* total and, whole, to exactly one group (the group of one of its names),
\* whatever the number of its names and the order of arrival.
C2_HardLinkCountedOnce ==
  has_ids =>
    /\ total = SumFun([id \in SeenIds(consumed) |-> IdSize(consumed, id)])
    /\ \E a \in Credits(consumed) : sizes = GroupsOfCredit(consumed, a)

\* C2 witness: three names of one file were consumed, the name listed last
\* first, and the file was credited to that name's group alone.
C2_Witness ==
  /\ pc = "returned"
  /\ has_ids
  /\ group_by = "Directory"
  /\ Cardinality({i \in EntryIdx(consumed) : consumed[i].id = 1}) = 3
  /\ consumed[1].path = pB
  /\ sizes = (sub :> 1) @@ (top :> 4)

\* Number of messages of a sequence that satisfy a test on type, error kind
\* and path.
CountMsg(seq, type, kind, path) ==
  Cardinality({i \in 1..Len(seq) :
     seq[i].type = type /\ seq[i].error = kind /\ seq[i].path = path})

\* Number of messages of a sequence about one path.
CountAbout(seq, path) ==
  Cardinality({i \in 1..Len(seq) : seq[i].path = path})

\* The closure calls on one path that have run (their visit has happened).
Visited(path) ==
  {t \in DOMAIN task : PathOf(t) = path /\ task[t] # "pending"}

AllPaths == Paths \cup {pGone}

\* C3 as stated: every visited entry, directories included, has produced
\* exactly one message.
C3_OneMessagePerVisit ==
  \A p \in AllPaths : CountAbout(sent, p) = Cardinality(Visited(p))

\* A directory with readable metadata whose listing succeeds.
ListedDir(path) == MetaOk(path) /\ is_dir(path) /\ ListOk(path)

\* C3 amended: a visited entry produces exactly one message, a SizeEntry or an
\* Error, unless it is a directory whose listing succeeded, which produces
\* none.
C3_OneMessageUnlessListedDir ==
  \A p \in AllPaths :
    /\ CountAbout(sent, p) =
         IF ListedDir(p) THEN 0 ELSE Cardinality(Visited(p))
    /\ CountAbout(sent, p) =
         CountMsg(sent, "SizeEntry", "", p) +
         CountMsg(sent, "Error", "NoMetadataForPath", p) +
         CountMsg(sent, "Error", "CouldNotReadDir", p)

\* C3 witness: a returned walk of top, which visited two listed directories,
\* two files and a symbolic link and sent three messages.
C3_Witness ==
  /\ pc = "returned"
  /\ root_dirs = <<pTop>>
  /\ Cardinality(DOMAIN task) = 5
  /\ Len(sent) = 3

\* C4: under fair scheduling every run, also one with metadata or listing
\* failures, reaches the return of Walk::run, with every closure call
\* finished, every Sender dropped and the receiver loop ended.
C4_RunReturns ==
  <>(/\ pc = "returned"
     /\ rx_pc = "done"
     /\ senders = 0
     /\ \A t \in DOMAIN task : task[t] = "done")

\* C4 witness: a run in which a root did not exist and a listing failed has
\* returned.
C4_Witness ==
  /\ pc = "returned"
  /\ faults.noList # {}
  /\ Len(result[3]) = 2
  /\ rx_pc = "done"

\* A path the walk finds in the listing of its parent directory.
Discoverable(c) ==
  /\ Len(c) > 1
  /\ c \in Paths
  /\ c \notin faults.badEntry
  /\ LET d == SubSeq(c, 1, Len(c) - 1) IN
       /\ d \in Paths
       /\ d \notin faults.noMeta
       /\ d \notin faults.noList
       /\ FS[d].kind = "dir"
       /\ \E k \in 1..Len(FS[d].entries) :
            /\ FS[d].entries[k] = c[Len(c)]
            /\ faults.endOfStream =>
                 \A i \in 1..(k - 1) :
                   Append(d, FS[d].entries[i]) \notin faults.badEntry

\* p is root r or is found by descending from r through listed directories.
RECURSIVE Reaches(_, _)
Reaches(r, p) ==
  \/ p = r
  \/ /\ Len(p) > Len(r)
     /\ Discoverable(p)
     /\ Reaches(r, SubSeq(p, 1, Len(p) - 1))

\* The closure calls a complete walk of the root list makes.
ExpectedVisits ==
  {t \in (1..Len(root_dirs)) \X AllPaths : Reaches(root_dirs[t[1]], t[2])}

\* C5: Walk::run has returned only when every closure call of the walk has
\* finished, no Sender is left, the channel is empty and every message sent
\* was consumed; the result is the receiver's final state, and there is no
\* result before.
C5_ReturnsAfterDrain ==
  IF pc = "returned"
  THEN /\ DOMAIN task = ExpectedVisits
       /\ \A t \in DOMAIN task : task[t] = "done"
       /\ \A w \in Workers : stack[w] = <<>>
       /\ senders = 0
       /\ queue = <<>>
       /\ consumed = sent
       /\ result = <<total, sizes, error_messages>>
  ELSE result = <<>>

\* C5 witness: a returned run that sent four messages.
C5_Witness ==
  /\ pc = "returned"
  /\ Len(sent) = 4
  /\ Len(consumed) = 4

\* The messages of the run in which one thread visits the roots and every
\* listing in order: one of the interleavings of the walk.
RECURSIVE WalkSeq(_), WalkList(_, _)
WalkSeq(p) ==
  IF ~MetaOk(p) THEN <<ErrorMsg("NoMetadataForPath", p)>>
  ELSE IF ~is_dir(p)
       THEN <<SizeEntry(generate_unique_id(p), p, SizeOf(p))>>
       ELSE IF ~ListOk(p) THEN <<ErrorMsg("CouldNotReadDir", p)>>
            ELSE WalkList(p, 1)

WalkList(d, k) ==
  IF k > Len(FS[d].entries) THEN <<>>
  ELSE LET c == Append(d, FS[d].entries[k])
       IN IF c \in faults.badEntry
          THEN (IF faults.endOfStream THEN <<>> ELSE WalkList(d, k + 1))
          ELSE WalkSeq(c) \o WalkList(d, k + 1)

RECURSIVE RootsSeq(_)
RootsSeq(k) ==
  IF k > Len(root_dirs) THEN <<>>
  ELSE WalkSeq(root_dirs[k]) \o RootsSeq(k + 1)

SeqRun == RootsSeq(1)

\* Positions of the SizeEntry messages that are the first of their identity,
\* or carry none.
FirstIdx(seq) ==
  {i \in EntryIdx(seq) :
     seq[i].id = NoId \/ \A j \in EntryIdx(seq) : j < i => seq[j].id # seq[i].id}

\* The groups map that credits every file to the first of its messages.
GroupsFirst(seq) ==
  [k \in {GroupKey(group_by, seq[i].path) : i \in FirstIdx(seq)} |->
     SumFun([i \in {j \in FirstIdx(seq) : GroupKey(group_by, seq[j].path) = k}
               |-> seq[i].size])]

\* The error list a sequence of messages leaves, and a list as a multiset.
ErrorsOf(seq) ==
  LET e == SelectSeq(seq, LAMBDA m : m.type = "Error")
  IN [i \in 1..Len(e) |-> [error |-> e[i].error, path |-> e[i].path]]

ErrBag(errs) ==
  [e \in {errs[i] : i \in 1..Len(errs)} |->
     Cardinality({i \in 1..Len(errs) : errs[i] = e})]

\* No two messages with one identity have different group keys.
NoSplitLinks(seq) ==
  \A i, j \in EntryIdx(seq) :
    (seq[i].id # NoId /\ seq[i].id = seq[j].id) =>
      GroupKey(group_by, seq[i].path) = GroupKey(group_by, seq[j].path)

\* C6 as stated: the returned total, groups map and multiset of errors are
\* those of the in-order run, whatever the interleaving.
C6_ResultIsThatOfInOrderRun ==
  pc = "returned" =>
    /\ result[1] = DistinctSum(SeqRun)
    /\ result[2] = GroupsFirst(SeqRun)
    /\ ErrBag(result[3]) = ErrBag(ErrorsOf(SeqRun))

\* C6 amended: the returned total and multiset of errors are those of the
\* in-order run whatever the interleaving, and so is the groups map unless two
\* visited paths with one identity have different group keys.
C6_ResultDeterministicButSplitLinks ==
  pc = "returned" =>
    /\ result[1] = DistinctSum(SeqRun)
    /\ ErrBag(result[3]) = ErrBag(ErrorsOf(SeqRun))
    /\ NoSplitLinks(SeqRun) => result[2] = GroupsFirst(SeqRun)

\* C6 witness: a returned walk of top whose messages arrived in another order
\* than that of the in-order run, the hard link first, with the same groups.
C6_Witness ==
  /\ pc = "returned"
  /\ root_dirs = <<pTop>>
  /\ has_ids
  /\ group_by = "Extension"
  /\ consumed # SeqRun
  /\ consumed[1].path = pB
  /\ result[2] = (<<"t","x","t">> :> 1) @@ (<<>> :> 4)

\* a is a proper prefix of b: b lies below a.
Below(a, b) == Len(a) < Len(b) /\ SubSeq(b, 1, Len(a)) = a

\* No closure call is on a path below p, but one that descends from a root
\* that itself lies below p.
NothingWalkedThrough(p) ==
  \A t \in DOMAIN task :
    Below(p, PathOf(t)) => Below(p, root_dirs[t[1]]) \/ PathOf(t) = root_dirs[t[1]]

\* A path that is a non-directory with readable metadata.
SizedPath(p) == p \in Paths /\ p \notin faults.noMeta /\ FS[p].kind # "dir"

\* The walk is complete: every expected closure call is done and every
\* visit of a sized path has its SizeEntry consumed.
OthersWalkedAndCounted ==
  /\ DOMAIN task = ExpectedVisits
  /\ \A t \in ExpectedVisits : task[t] = "done"
  /\ \A p \in AllPaths :
       CountMsg(consumed, "SizeEntry", "", p) =
         IF SizedPath(p)
         THEN Cardinality({t \in ExpectedVisits : t[2] = p})
         ELSE 0

\* Directories with readable metadata whose listing fails.
UnreadableDirs ==
  {d \in Paths : d \notin faults.noMeta /\ FS[d].kind = "dir" /\
                 d \in faults.noList}

\* C7: every visit of a directory whose listing fails sends exactly one
\* message, a CouldNotReadDir of it; nothing is walked through it; and when
\* the run has returned every other expected entry was walked and its size
\* counted.
C7_UnreadableDirIsolated ==
  /\ \A d \in UnreadableDirs :
       /\ CountMsg(sent, "Error", "CouldNotReadDir", d) = Cardinality(Visited(d))
       /\ CountAbout(sent, d) = Cardinality(Visited(d))
       /\ NothingWalkedThrough(d)
  /\ (pc = "returned" /\ \E d \in UnreadableDirs : Visited(d) # {}) =>
       /\ OthersWalkedAndCounted
       /\ result[1] = DistinctSum(SeqRun)

\* C7 witness: top/sub could not be listed; its siblings top/A.TXT and top/ln
\* and the other root were walked and counted.
C7_Witness ==
  /\ pc = "returned"
  /\ root_dirs = <<pTop, pB>>
  /\ has_ids
  /\ faults.noList = {pSub}
  /\ result[3] = <<[error |-> "CouldNotReadDir", path |-> pSub]>>
  /\ result[1] = 5
  /\ CountMsg(consumed, "SizeEntry", "", pB) = 1

\* Paths whose metadata cannot be read.
NoMetaPaths == {p \in AllPaths : p \notin Paths \/ p \in faults.noMeta}

\* C8: every visit of an entry whose metadata cannot be read sends exactly
\* one message, a NoMetadataForPath of it, and no SizeEntry; the entry is
\* never listed and nothing is walked through it; and when the run has
\* returned every other expected entry was walked and its size counted.
C8_NoMetadataIsolated ==
  /\ \A p \in NoMetaPaths :
       /\ CountMsg(sent, "Error", "NoMetadataForPath", p) =
            Cardinality(Visited(p))
       /\ CountAbout(sent, p) = Cardinality(Visited(p))
       /\ \A t \in DOMAIN task : PathOf(t) = p => task[t] # "waiting"
       /\ NothingWalkedThrough(p)
  /\ (pc = "returned" /\ \E p \in NoMetaPaths : Visited(p) # {}) =>
       /\ OthersWalkedAndCounted
       /\ Len(result[3]) >= 1

\* C8 witness: the metadata of the directory top/sub could not be read; the
\* run returned with that one error and the sizes of top/A.TXT and top/ln.
C8_Witness ==
  /\ pc = "returned"
  /\ root_dirs = <<pTop>>
  /\ faults.noMeta = {pSub}
  /\ result[3] = <<[error |-> "NoMetadataForPath", path |-> pSub]>>
  /\ result[1] = 5

\* No two distinct sized paths of the walk are names of one file.
NoHardLinks ==
  \A t, u \in ExpectedVisits :
    (SizedPath(t[2]) /\ SizedPath(u[2]) /\ t[2] # u[2]) =>
      FS[t[2]].ino # FS[u[2]].ino

\* C9: for a walk that meets no hard links, the returned total is the sum of
\* the values of the returned groups map, in every grouping mode.
C9_TotalIsSumOfGroups ==
  (pc = "returned" /\ NoHardLinks) => result[1] = SumFun(result[2])

\* C9 witness: a returned walk of top/sub and x.q, without hard links, with
\* two groups and total 9.
C9_Witness ==
  /\ pc = "returned"
  /\ NoHardLinks
  /\ root_dirs = <<pSub, pX>>
  /\ Cardinality(DOMAIN result[2]) = 2
  /\ result[1] = 9

\* C10: the receiver's step on an Error message appends that error to
\* error_messages and leaves total, sizes and ids unchanged.
C10_ErrorOnlyAppends ==
  [][(/\ rx_pc = "recv"
      /\ queue # <<>>
      /\ Head(queue).type = "Error"
      /\ consumed' = Append(consumed, Head(queue)))
     => (/\ total' = total
         /\ sizes' = sizes
         /\ ids' = ids
         /\ error_messages' = Append(error_messages,
                                     [error |-> Head(queue).error,
                                      path |-> Head(queue).path]))]_vars

\* C10 witness: an Error was consumed after entries had been counted.
C10_Witness ==
  /\ consumed # <<>>
  /\ consumed[Len(consumed)].type = "Error"
  /\ total > 0
  /\ ids # {}
  /\ sizes # <<>>
  /\ Len(error_messages) = 1

\* C11: error_messages is at every moment the list of the Error messages
\* consumed so far, each once, in the order of their consumption; the
\* returned list is that list for the whole run and holds every Error that
\* was sent, once.
C11_ErrorsInArrivalOrder ==
  /\ error_messages = ErrorsOf(consumed)
  /\ pc = "returned" =>
       /\ result[3] = ErrorsOf(consumed)
       /\ ErrBag(result[3]) = ErrBag(ErrorsOf(sent))
       /\ Len(result[3]) =
            Cardinality({i \in 1..Len(sent) : sent[i].type = "Error"})

\* C11 witness: the second root's listing failure was consumed before the
\* first root's metadata failure, and the returned list has them in that
\* order.
C11_Witness ==
  /\ pc = "returned"
  /\ root_dirs = <<pGone, pSub>>
  /\ result[3] = <<[error |-> "CouldNotReadDir", path |-> pSub],
                   [error |-> "NoMetadataForPath", path |-> pGone]>>

\* C12: no SizeEntry is ever sent about a directory, and total and every
\* group are sums of the metadata sizes of counted entries that are no
\* directories: a directory's own size reaches neither.
C12_DirectoriesNotSized ==
  /\ \A i \in EntryIdx(sent) :
       sent[i].path \in Paths /\ FS[sent[i].path].kind # "dir"
  /\ \A i \in FirstIdx(consumed) : FS[consumed[i].path].kind # "dir"
  /\ total = SumFun([i \in FirstIdx(consumed) |-> FS[consumed[i].path].size])
  /\ SumFun(sizes) = total
  /\ \A k \in DOMAIN sizes :
       sizes[k] =
         SumFun([i \in {j \in FirstIdx(consumed) :
                          GroupKey(group_by, consumed[j].path) = k}
                   |-> FS[consumed[i].path].size])

\* C12 witness: a returned walk of top, which visited the directories top
\* (size 16) and top/sub (size 32): the total is that of the two files and
\* the link, 6.
C12_Witness ==
  /\ pc = "returned"
  /\ root_dirs = <<pTop>>
  /\ ~has_ids
  /\ DOMAIN task = {<<1, p>> : p \in {pTop, pA, pSub, pB, pLn}}
  /\ task[<<1, pTop>>] = "done"
  /\ task[<<1, pSub>>] = "done"
  /\ total = 6
  /\ SumFun(sizes) = 6

\* C13: the receiver's step on a SizeEntry without identity adds its size to
\* total and to the group of its path and leaves ids unchanged; on a platform
\* without identities ids stays empty and total is the sum of the sizes of all
\* consumed SizeEntry messages, equal paths included.
C13_AbsentIdentityAlwaysCounted ==
  /\ [](~has_ids =>
         /\ ids = {}
         /\ total = SumFun([i \in EntryIdx(consumed) |-> consumed[i].size]))
  /\ [][(/\ rx_pc = "recv"
         /\ queue # <<>>
         /\ Head(queue).type = "SizeEntry"
         /\ Head(queue).id = NoId
         /\ consumed' = Append(consumed, Head(queue)))
        => (/\ total' = total + Head(queue).size
            /\ ids' = ids
            /\ LET k == GroupKey(group_by, Head(queue).path) IN
                 sizes' = [x \in DOMAIN sizes \cup {k} |->
                             IF x = k
                             THEN (IF k \in DOMAIN sizes THEN sizes[k] ELSE 0) +
                                  Head(queue).size
                             ELSE sizes[x]])]_vars

\* C13 witness: without identities the root x.q, given twice, was counted
\* twice: two entries with one path, total 16 in one group.
C13_Witness ==
  /\ pc = "returned"
  /\ ~has_ids
  /\ root_dirs = <<pX, pX>>
  /\ consumed[1] = consumed[2]
  /\ consumed[1].id = NoId
  /\ ids = {}
  /\ total = 16
  /\ Cardinality(DOMAIN sizes) = 1
  /\ SumFun(sizes) = 16

\* C14: a closure call that is about to send can always take its step: the
\* send of a SizeEntry, of a NoMetadataForPath and of a CouldNotReadDir is
\* enabled in every state in which its closure call is pending, whatever the
\* number of buffered messages and the position of the receiver.
C14_SendNeverBlocks ==
  \A t \in DOMAIN task :
    task[t] = "pending" =>
      IF ~MetaOk(PathOf(t)) THEN ENABLED VisitNoMeta(t)
      ELSE IF ~is_dir(PathOf(t)) THEN ENABLED VisitFile(t)
      ELSE ENABLED (\E w \in FreeWorkers : VisitDir(t, w))

\* C14 witness: the walk is over and its four messages are buffered while
\* the receiver has not consumed one.
C14_Witness ==
  /\ pc = "join"
  /\ rx_pc = "recv"
  /\ consumed = <<>>
  /\ Len(queue) = 4
  /\ queue = sent

\* Two strings that differ at most in the case of their ASCII letters.
CaseEq(a, b) ==
  /\ Len(a) = Len(b)
  /\ \A i \in 1..Len(a) :
       \/ a[i] = b[i]
       \/ \E k \in 1..26 : {a[i], b[i]} = {UpperCase[k], LowerCase[k]}

HasUpper(a) == \E i \in 1..Len(a) : \E k \in 1..26 : a[i] = UpperCase[k]

\* C15: in Extension mode every group key is free of upper-case letters, and
\* the value of a key is the sum of the sizes of the counted entries whose
\* extension equals the key but for letter case: extensions that differ only
\* in case share one group, named by the lower-case spelling.
C15_ExtensionCaseInsensitive ==
  group_by = "Extension" =>
    /\ \A k \in DOMAIN sizes : ~HasUpper(k)
    /\ \A i \in FirstIdx(consumed) :
         \E k \in DOMAIN sizes : CaseEq(k, extension(consumed[i].path))
    /\ \A k \in DOMAIN sizes :
         sizes[k] =
           SumFun([i \in {j \in FirstIdx(consumed) :
                            CaseEq(k, extension(consumed[j].path))}
                     |-> consumed[i].size])

\* C15 witness: top/A.TXT and top/sub/b.txt were both counted (no
\* identities) and make up the one group txt.
C15_Witness ==
  /\ pc = "returned"
  /\ group_by = "Extension"
  /\ ~has_ids
  /\ root_dirs = <<pTop>>
  /\ \E i, j \in FirstIdx(consumed) :
       consumed[i].path = pA /\ consumed[j].path = pB
  /\ sizes = (<<"t","x","t">> :> 2) @@ (<<>> :> 4)

\* A path whose file name has no extension.
NoExt(p) == extension(p) = <<>>

\* A path whose extension, in any letter case, is no key of the table; a
\* path without extension is one.
Unclassified(p) ==
  ~\E e \in DOMAIN FILETYPE_MAP : CaseEq(e, extension(p))

\* The sum of the sizes of the counted entries whose path passes a test.
CountedSize(Test(_)) ==
  SumFun([i \in {j \in FirstIdx(consumed) : Test(consumed[j].path)}
            |-> consumed[i].size])

\* C16: in Extension mode the counted paths without extension are those that
\* make up the group of the empty string; in Type mode the counted paths
\* without extension or with an extension missing from the table are those
\* that make up the group Other.
C16_NoExtensionGroups ==
  /\ group_by = "Extension" =>
       IF \E i \in FirstIdx(consumed) : NoExt(consumed[i].path)
       THEN <<>> \in DOMAIN sizes /\ sizes[<<>>] = CountedSize(NoExt)
       ELSE <<>> \notin DOMAIN sizes
  /\ group_by = "Type" =>
       IF \E i \in FirstIdx(consumed) : Unclassified(consumed[i].path)
       THEN Other \in DOMAIN sizes /\ sizes[Other] = CountedSize(Unclassified)
       ELSE Other \notin DOMAIN sizes

\* C16 witness: in Type mode the link top/ln, which has no extension, makes
\* up the group Other beside the two text files.
C16_Witness ==
  /\ pc = "returned"
  /\ group_by = "Type"
  /\ ~has_ids
  /\ \E i \in FirstIdx(consumed) : consumed[i].path = pLn
  /\ sizes = (Other :> 4) @@ (<<"D","o","c","u","m","e","n","t">> :> 2)

\* The name of the immediate parent directory as the path spells it: the
\* component before the last; the empty string for a path of one component.
ParentName(p) == IF Len(p) >= 2 THEN p[Len(p) - 1] ELSE <<>>

\* C17: in Directory mode the groups are keyed by the name of the immediate
\* parent directory of the counted paths, and by the empty string for a path
\* without parent component: every counted path's parent name is a key, and
\* the value of a key is the sum of the sizes of the counted paths with that
\* parent name.
C17_KeyIsParentName ==
  group_by = "Directory" =>
    /\ \A i \in FirstIdx(consumed) : ParentName(consumed[i].path) \in DOMAIN sizes
    /\ \A k \in DOMAIN sizes :
         sizes[k] =
           SumFun([i \in {j \in FirstIdx(consumed) :
                            ParentName(consumed[j].path) = k}
                     |-> consumed[i].size])

Symlinks == {p \in Paths : FS[p].kind = "symlink"}

\* C18: a symbolic link is never listed nor descended into, also when it
\* points to its own parent directory: no closure call is blocked in a
\* nested walk of a link, none is on a path below a link, every visit of a
\* link has sent exactly one message, a SizeEntry with the link's own size
\* and identity, and the closure calls of a run are those of the finite tree.
C18_SymlinkNotFollowed ==
  /\ \A l \in Symlinks :
       /\ \A t \in DOMAIN task :
            /\ PathOf(t) = l => task[t] # "waiting"
            /\ ~Below(l, PathOf(t))
       /\ \A w \in Workers : \A k \in 1..Len(stack[w]) : PathOf(stack[w][k]) # l
       /\ CountMsg(sent, "SizeEntry", "", l) = Cardinality(Visited(l))
       /\ CountAbout(sent, l) = Cardinality(Visited(l))
       /\ \A i \in 1..Len(sent) :
            sent[i].path = l =>
              sent[i] = SizeEntry(IF has_ids THEN FS[l].ino ELSE NoId, l,
                                  FS[l].size)
  /\ DOMAIN task \subseteq ExpectedVisits

\* C18 witness: a returned walk of top, whose entry top/ln links back to
\* top: five closure calls, one SizeEntry of size 4 for the link.
C18_Witness ==
  /\ pc = "returned"
  /\ root_dirs = <<pTop>>
  /\ Cardinality(DOMAIN task) = 5
  /\ <<1, pLn>> \in DOMAIN task
  /\ task[<<1, pLn>>] = "done"
  /\ CountMsg(consumed, "SizeEntry", "", pLn) = 1
  /\ \E i \in 1..Len(consumed) :
       consumed[i].path = pLn /\ consumed[i].size = 4

\* A closure call on a root, and the closure call on the directory in whose
\* listing a closure call's entry was found.
IsRootTask(t) == PathOf(t) = root_dirs[t[1]]

ParentTask(t) == <<t[1], parent(PathOf(t))>>

\* The closure call on a directory has listed it successfully.
Listed(t) ==
  /\ t \in DOMAIN task
  /\ task[t] # "pending"
  /\ ListedDir(PathOf(t))

\* C19: a closure call on an entry found in a listing exists only once the
\* closure call on its directory has listed the directory successfully, and
\* takes its step (the only step that sends a message about the entry) while
\* that call is blocked in the nested walk; every step that sends is the step
\* of one closure call and sends about its entry; so no message about a
\* child precedes the listing of its directory and nothing is sent about
\* what lies below a directory whose listing failed.
C19_ListingBeforeChildren ==
  /\ [](\A t \in DOMAIN task : ~IsRootTask(t) => Listed(ParentTask(t)))
  /\ [](\A d \in UnreadableDirs : NothingWalkedThrough(d))
  /\ [][/\ \A t \in DOMAIN task :
            (task[t] = "pending" /\ task'[t] # "pending" /\ ~IsRootTask(t)) =>
              Listed(ParentTask(t)) /\ task[ParentTask(t)] = "waiting"
        /\ sent' # sent =>
            \E t \in DOMAIN task :
              /\ task[t] = "pending"
              /\ task'[t] # "pending"
              /\ Len(sent') = Len(sent) + 1
              /\ sent'[Len(sent')].path = PathOf(t)]_vars

\* C19 witness: the message about top/sub/b.txt was sent before the one
\* about top/A.TXT, which stands before sub in the listing of top.
C19_Witness ==
  /\ root_dirs = <<pTop>>
  /\ Len(sent) >= 2
  /\ sent[1].path = pB
  /\ sent[2].path = pA
  /\ task[<<1, pSub>>] = "waiting"

\* The identities of a sequence whose names fall into more than one group.
SplitIds(seq) ==
  {id \in SeenIds(seq) :
     Cardinality({GroupKey(group_by, p) : p \in NamesOf(seq, id)}) > 1}

\* The name under which the first consumed message of an identity came.
FirstName(seq, id) ==
  seq[CHOOSE i \in FirstIdx(seq) : seq[i].id = id].path

\* What the group k holds of the file with identity id.
ShareOf(seq, id, k) ==
  IF GroupKey(group_by, FirstName(seq, id)) = k THEN IdSize(seq, id) ELSE 0

\* C20: the groups map credits every file, whole, to the group of the name
\* whose message was consumed first: a group's value is the sum of the sizes
\* of the files whose first consumed name maps to it, so the group of a later
\* name of the same file receives nothing from that file.
C20_FirstConsumedNameIsCredited ==
  has_ids =>
    /\ \A id \in SeenIds(consumed) :
         GroupKey(group_by, FirstName(consumed, id)) \in DOMAIN sizes
    /\ \A k \in DOMAIN sizes :
         sizes[k] = SumFun([id \in SeenIds(consumed) |-> ShareOf(consumed, id, k)])
    /\ total = SumFun(sizes)

\* C20 witness: in Directory mode top/sub/b.txt was consumed before
\* top/A.TXT, its other name: the file is credited to sub, and top holds the
\* link alone.
C20_Witness ==
  /\ pc = "returned"
  /\ has_ids
  /\ group_by = "Directory"
  /\ root_dirs = <<pTop>>
  /\ SplitIds(consumed) = {1}
  /\ FirstName(consumed, 1) = pB
  /\ result[2] = (sub :> 1) @@ (top :> 4)

\* The other attribution of the same run: top/A.TXT was consumed first, the
\* file is credited to top, and sub has no group.
C20_OtherAttribution ==
  /\ pc = "returned"
  /\ has_ids
  /\ group_by = "Directory"
  /\ root_dirs = <<pTop>>
  /\ SplitIds(consumed) = {1}
  /\ FirstName(consumed, 1) = pA
  /\ result[2] = (top :> 5)

\* The closure calls on one path, whatever their state.
CallsOn(p) == {t \in DOMAIN task : PathOf(t) = p}

\* C21 as stated: for every root list no path is the input of two closure
\* calls, and when the run has returned every path a root names or a listing
\* yields was the input of exactly one.
C21_NoPathVisitedTwice ==
  /\ \A p \in AllPaths : Cardinality(CallsOn(p)) <= 1
  /\ pc = "returned" =>
       \A p \in AllPaths :
         (\E t \in ExpectedVisits : t[2] = p) => Cardinality(CallsOn(p)) = 1

\* No root is given twice and none lies below another.
DisjointRoots ==
  \A i, j \in 1..Len(root_dirs) :
    i # j => root_dirs[i] # root_dirs[j] /\ ~Below(root_dirs[i], root_dirs[j])

\* The roots from which the walk finds a path.
RootsReaching(p) == {i \in 1..Len(root_dirs) : Reaches(root_dirs[i], p)}

\* C21 amended: a path is the input of at most one closure call per root
\* from which the walk finds it, and of exactly one per such root when the
\* run has returned; so for a list of roots of which none is given twice or
\* lies below another no path is the input of two closure calls.
C21_OneVisitPerRoot ==
  /\ \A p \in AllPaths :
       /\ Cardinality(CallsOn(p)) <= Cardinality(RootsReaching(p))
       /\ \A t \in CallsOn(p) : t[1] \in RootsReaching(p)
       /\ Cardinality(Visited(p)) =
            IF ListedDir(p)
            THEN Cardinality({t \in CallsOn(p) : task[t] # "pending"})
            ELSE CountAbout(sent, p)
  /\ pc = "returned" =>
       \A p \in AllPaths :
         /\ Cardinality(CallsOn(p)) = Cardinality(RootsReaching(p))
         /\ \A t \in CallsOn(p) : task[t] = "done"
  /\ DisjointRoots => \A p \in AllPaths : Cardinality(CallsOn(p)) <= 1

\* C21 witness: a returned walk of the disjoint roots top/sub and x.q: three
\* paths, one closure call each.
C21_Witness ==
  /\ pc = "returned"
  /\ root_dirs = <<pSub, pX>>
  /\ DisjointRoots
  /\ Cardinality(DOMAIN task) = 3
  /\ \A p \in {pSub, pB, pX} : Cardinality(CallsOn(p)) = 1

\* C22: the receiver's step on a SizeEntry whose identity is in ids leaves
\* total, sizes (its keys and its values), error_messages and ids unchanged.
C22_DuplicateChangesNothing ==
  [][(/\ rx_pc = "recv"
      /\ queue # <<>>
      /\ Head(queue).type = "SizeEntry"
      /\ Head(queue).id # NoId
      /\ Head(queue).id \in ids
      /\ consumed' = Append(consumed, Head(queue)))
     => (/\ total' = total
         /\ sizes' = sizes
         /\ DOMAIN sizes' = DOMAIN sizes
         /\ error_messages' = error_messages
         /\ ids' = ids)]_vars

\* C22 witness: in Directory mode top/sub/b.txt was consumed after
\* top/A.TXT, its other name, and there is no group sub.
C22_Witness ==
  /\ has_ids
  /\ group_by = "Directory"
  /\ Len(consumed) >= 2
  /\ consumed[Len(consumed)].path = pB
  /\ \E i \in 1..(Len(consumed) - 1) :
       consumed[i].type = "SizeEntry" /\ consumed[i].id = 1
  /\ sub \notin DOMAIN sizes
  /\ total = SumFun(sizes)
  /\ total > 0

\* C23: in every state of the receiver, with or without identities and
\* whatever duplicates were consumed, total is the sum of the values of
\* sizes; the returned pair has the same relation.
C23_TotalIsSumOfGroupsAlways ==
  /\ total = SumFun(sizes)
  /\ pc = "returned" => result[1] = SumFun(result[2])

\* C23 witness: the receiver is in the middle of a run with identities, has
\* consumed both names of the hard-linked file and another entry, and more
\* is buffered.
C23_Witness ==
  /\ has_ids
  /\ rx_pc = "recv"
  /\ queue # <<>>
  /\ Cardinality({i \in EntryIdx(consumed) : consumed[i].id = 1}) = 2
  /\ Cardinality(DOMAIN sizes) = 2
  /\ total = 5

\* C24: the Receiver lives (the receiver thread is in its loop) as long as a
\* Sender exists, a closure call has not run or the root walk has not
\* returned, and every step that sends finds it alive: no send fails.
C24_ReceiverOutlivesSenders ==
  /\ [](rx_pc = "done" =>
         /\ senders = 0
         /\ \A t \in DOMAIN task : task[t] = "done"
         /\ pc \in {"join", "returned"}
         /\ queue = <<>>)
  /\ [][sent' # sent => (rx_pc = "recv" /\ rx_pc' = "recv" /\ senders > 0)]_vars

\* C24 witness: the receiver has consumed two messages and found the channel
\* empty; it is still in its loop, and closure calls that will send are
\* still to run.
C24_Witness ==
  /\ rx_pc = "recv"
  /\ queue = <<>>
  /\ Len(consumed) = 2
  /\ consumed = sent
  /\ \E t \in DOMAIN task :
       task[t] = "pending" /\ MetaOk(PathOf(t)) /\ ~is_dir(PathOf(t))
  /\ senders >= 2

\* The visits of a complete walk that send a SizeEntry, and the physical
\* files (inodes) they are visits of.
SizedVisits == {t \in ExpectedVisits : SizedPath(t[2])}

PhysicalFiles == {FS[t[2]].ino : t \in SizedVisits}

InoSize(i) ==
  FS[CHOOSE p \in Paths : FS[p].kind # "dir" /\ FS[p].ino = i].size

\* C25: with identities, when the run has returned one SizeEntry was
\* consumed per visit of a sized path (so several for a path under a repeated
\* or nested root), and yet total, and the sum of the groups, is the sum of
\* the sizes of the physical files visited, each once.
C25_OverlappingRootsCountOnce ==
  (has_ids /\ pc = "returned") =>
    /\ \A p \in AllPaths :
         CountMsg(consumed, "SizeEntry", "", p) =
           Cardinality({t \in SizedVisits : t[2] = p})
    /\ result[1] = SumFun([i \in PhysicalFiles |-> InoSize(i)])
    /\ SumFun(result[2]) = SumFun([i \in PhysicalFiles |-> InoSize(i)])
    /\ ids = PhysicalFiles

\* C25 witness: the root top/sub was given twice; two SizeEntry messages
\* about top/sub/b.txt were consumed and the total is its size, 1.
C25_Witness ==
  /\ pc = "returned"
  /\ has_ids
  /\ root_dirs = <<pSub, pSub>>
  /\ ~DisjointRoots
  /\ CountMsg(consumed, "SizeEntry", "", pB) = 2
  /\ result[1] = 1
  /\ SumFun(result[2]) = 1

\* C26: for every pool width from 1 on, a run that has not returned can take
\* a step (no deadlock, also when the only worker is blocked in nested
\* walks), and the returned total and multiset of errors are those of the
\* in-order run, which does not depend on the width.
C26_NoDeadlockAnyWidth ==
  /\ pc # "returned" => ENABLED Next
  /\ \A t \in DOMAIN task :
       task[t] = "pending" =>
         ENABLED (VisitNoMeta(t) \/ VisitFile(t) \/
                  \E w \in FreeWorkers : VisitDir(t, w))
  /\ pc = "returned" =>
       /\ result[1] = DistinctSum(SeqRun)
       /\ ErrBag(result[3]) = ErrBag(ErrorsOf(SeqRun))

\* C26 witness: with a pool of one worker, that worker is blocked in the
\* root walk, in the walk of top's children and in the walk of top/sub's
\* children, and the closure call on top/sub/b.txt has run.
C26_Witness ==
  /\ num_threads = 1
  /\ root_dirs = <<pTop>>
  /\ Len(stack[1]) = 3
  /\ stack[1][2] = <<1, pTop>>
  /\ stack[1][3] = <<1, pSub>>
  /\ <<1, pB>> \in DOMAIN task
  /\ task[<<1, pB>>] = "done"

\* The closure calls that listed directory d successfully.
ListingsOf(d) == {t \in DOMAIN task : PathOf(t) = d /\ Listed(t)}

\* Nothing was sent about the failed entry c of a listing of d by closure
\* call t, and no CouldNotReadDir about d.
SkippedSilently(t, d, c) ==
  /\ <<t[1], c>> \notin DOMAIN task
  /\ CountAbout(sent, c) = Cardinality({u \in Visited(c) : IsRootTask(u)})
  /\ CountMsg(sent, "Error", "CouldNotReadDir", d) = 0

\* The other entries of d are walked: each has its closure call, which has
\* finished when the run has returned.
OthersWalked(t, d, c) ==
  \A k \in 1..Len(FS[d].entries) :
    LET e == Append(d, FS[d].entries[k]) IN
      e \notin faults.badEntry =>
        /\ <<t[1], e>> \in DOMAIN task
        /\ pc = "returned" => task[<<t[1], e>>] = "done"

\* C27: when a directory was listed and the read of one of its entries
\* failed, nothing is sent about that entry, no CouldNotReadDir is sent about
\* the directory, and every other entry of the directory is walked.
C27_BadEntrySkippedOthersWalked ==
  \A c \in faults.badEntry :
    \A t \in ListingsOf(parent(c)) :
      /\ SkippedSilently(t, parent(c), c)
      /\ OthersWalked(t, parent(c), c)

====
